---------------------------- MODULE Spec2Model ----------------------------
(***************************************************************************)
(* Model of the debugging-tool overlay toolkit.                            *)
(*                                                                         *)
(*   - the selector generator and element describer of the inspector       *)
(*     (src/src/components/DebugOverlay.tsx), over a DOM built by          *)
(*     appendChild, with the browser's selector matching;                  *)
(*   - the annotation store (src/unnamed/part_000), mirrored to            *)
(*     localStorage, and the annotations dashboard (src/unnamed/part_001); *)
(*   - DebugOverlay with its control panel, the inspector's listeners,     *)
(*     the cold reload button's timers and FPSOverlay's process info       *)
(*     polling (src/unnamed/part_001).                                     *)
(*                                                                         *)
(* Strings that are formatted or parsed are sequences of one-character     *)
(* strings, so that '#' + id, '.' + class and ':nth-child(i)' are built     *)
(* and read back character by character.                                   *)
(***************************************************************************)
EXTENDS Integers, Sequences, FiniteSets, TLC

VARIABLES
    nodes,            \* the DOM below document.body: node i is nodes[i], 0 is the body
    hoveredElement,   \* ElementInspector state: the tracked element (NoElement = null)
    elementInfo,      \* ElementInspector state: its descriptor (NoInfo = null)
    annotations,      \* the annotations atom: its entries in insertion order
    dialogElementInfo, \* AnnotationSystem state: the open dialog's element (NoDialog = null)
    filter,           \* AnnotationsDashboard state: the selected filter
    now,              \* Date.now(), in model ticks
    lastCall,         \* what the handler that ran last passed to the store, the clipboard and the toast
    state,            \* DebugOverlay state: enabled, showFps, showInspector, showAnnotations
    listeners,        \* the inspector's listeners registered on document, by event type
    annotationCount,  \* DebugOverlay state: what onAnnotationCountChange delivered last
    coldReloadActive, \* DebugOverlay state: the cold reload button is held
    coldReloadProgress, \* DebugOverlay state: the percentage the button shows
    coldReloadTimeoutRef, \* DebugOverlay ref: the interval of the last press (NoTimer = null)
    intervals,        \* the running setInterval timers: id -> the closure's progress
    timerIds,         \* the number of setInterval calls so far, the last id given
    reloaded,         \* window.location.reload() was called: the page is gone
    getProcessInfo,   \* DebugOverlay prop: the caller gave a getProcessInfo callback
    showProcessInfo,  \* DebugOverlay state: process info is switched on
    processInfo,      \* FPSOverlay state: the process info shown (NoProcessInfo = null)
    pollInterval,     \* FPSOverlay effect: its setInterval is running
    inFlight,         \* getProcessInfo promises of the mounted FPSOverlay not settled yet
    localStorage      \* the item stored under the annotations key (NoItem = none)

domVars   == <<nodes, hoveredElement, elementInfo>>
storeVars == <<annotations, dialogElementInfo, filter, now, lastCall>>
overlayVars == <<state, listeners>>
reloadVars == <<coldReloadActive, coldReloadProgress, coldReloadTimeoutRef,
                intervals, timerIds,
                reloaded>>
processVars == <<getProcessInfo, showProcessInfo, processInfo, pollInterval, inFlight>>
panelVars == <<annotationCount, reloadVars, processVars, localStorage>>
vars      == <<nodes, hoveredElement, elementInfo,
               annotations, dialogElementInfo, filter, now, lastCall,
               state, listeners, annotationCount,
               coldReloadActive, coldReloadProgress, coldReloadTimeoutRef,
               intervals, timerIds, reloaded,
               getProcessInfo, showProcessInfo, processInfo, pollInterval, inFlight,
               localStorage>>

-----------------------------------------------------------------------------
(* Bounds of the model *)

\* elements of a page of any shape, with any attributes
MaxBushy == 2

\* setInterval calls in a run
MaxTimers == 2

\* getProcessInfo calls not settled yet
MaxInFlight == 2
\* elements of a page that is one nested chain
MaxNodes == 13

-----------------------------------------------------------------------------
(* Strings as character sequences *)

UpperChars == <<"A","B","C","D","E","F","G","H","I","J","K","L","M",
                "N","O","P","Q","R","S","T","U","V","W","X","Y","Z">>
LowerChars == <<"a","b","c","d","e","f","g","h","i","j","k","l","m",
                "n","o","p","q","r","s","t","u","v","w","x","y","z">>
DigitChars == <<"0","1","2","3","4","5","6","7","8","9">>

Range(s) == {s[i] : i \in DOMAIN s}

\* String.prototype.toLowerCase, one character
LowerOfUpper ==
    [c \in Range(UpperChars) |-> LowerChars[CHOOSE i \in DOMAIN UpperChars : UpperChars[i] = c]]
ToLowerChar(c) == IF c \in DOMAIN LowerOfUpper THEN LowerOfUpper[c] ELSE c

\* String.prototype.toLowerCase
ToLowerCase(s) == [i \in DOMAIN s |-> ToLowerChar(s[i])]

\* template-literal formatting of a non-negative integer: decimal digits
RECURSIVE NumToStr(_)
NumToStr(n) ==
    IF n < 10 THEN <<DigitChars[n + 1]>>
    ELSE NumToStr(n \div 10) \o <<DigitChars[(n % 10) + 1]>>

\* Array.prototype.join
RECURSIVE Join(_, _)
Join(parts, sep) ==
    IF Len(parts) = 0 THEN <<>>
    ELSE IF Len(parts) = 1 THEN parts[1]
    ELSE parts[1] \o sep \o Join(Tail(parts), sep)

\* Array.prototype.slice(0, k)
SliceFirst(s, k) == SubSeq(s, 1, IF Len(s) < k THEN Len(s) ELSE k)

-----------------------------------------------------------------------------
(* The DOM *)

\* tag names as element.tagName reports them for HTML elements (upper case)
TagDiv  == <<"D","I","V">>
TagP    == <<"P">>
TagSpan == <<"S","P","A","N">>
TagBody == <<"B","O","D","Y">>

\* attribute values and class names
IdX     == <<"x">>
TestIdT == <<"t">>
NpN     == <<"n">>
ClassA  == <<"a">>
ClassB  == <<"b">>
ClassC  == <<"c">>
\* a class name with a variant prefix, as utility-class frameworks write them
\* (this repository's own markup uses hover:bg-white/10, focus:outline-none)
ClassMdA == <<"m","d",":","a">>

Elem(tag, id, testid, np, classes) ==
    [tagName |-> tag, id |-> id, testid |-> testid, np |-> np, classList |-> classes]

\* the elements a page may hold: every combination of the attributes the
\* generator reads that its branches tell apart
ElementKinds ==
    { Elem(TagDiv,  <<>>, <<>>,    <<>>, <<>>),
      Elem(TagDiv,  <<>>, <<>>,    <<>>, <<ClassA>>),
      Elem(TagP,    <<>>, <<>>,    <<>>, <<ClassA, ClassB, ClassC>>),
      Elem(TagDiv,  <<>>, <<>>,    <<>>, <<ClassMdA>>),
      Elem(TagDiv,  IdX,  <<>>,    <<>>, <<ClassA>>),
      Elem(TagSpan, IdX,  TestIdT, NpN,  <<ClassB>>),
      Elem(TagSpan, <<>>, TestIdT, NpN,  <<>>),
      Elem(TagSpan, <<>>, TestIdT, <<>>, <<ClassA>>),
      Elem(TagSpan, <<>>, <<>>,    NpN,  <<ClassA>>) }

\* the elements of a long nested chain
ChainKinds ==
    { Elem(TagDiv, <<>>, <<>>, <<>>, <<ClassA>>) }

NoParent == -1
\* null where an element is expected
NoElement == NoParent
Body == 0
\* document.documentElement
Html == -2
BodyNode == [parent |-> NoParent, tagName |-> TagBody, id |-> <<>>, testid |-> <<>>,
             np |-> <<>>, classList |-> <<>>]

Count == Len(nodes)
\* the elements below document.body
Elements == 1..Count
Node(e) == IF e = Body THEN BodyNode ELSE nodes[e]

\* element.parentElement (the body's parent, the root element, is not modelled)
parentElement(e) == Node(e).parent

\* element.parentElement.children, in document order: appendChild puts a node
\* after its siblings, so siblings are ordered by creation
children(p) ==
    LET IsChild(i) == nodes[i].parent = p
    IN  SelectSeq([i \in 1..Count |-> i], IsChild)

\* Array.prototype.indexOf, 0-based, -1 when absent
indexOf(s, x) ==
    IF \E i \in DOMAIN s : s[i] = x
    THEN (CHOOSE i \in DOMAIN s : s[i] = x /\ \A j \in 1..(i - 1) : s[j] # x) - 1
    ELSE -1

\* the 0-based position of an element among its parent's children; the body is
\* the second child of the root element
siblingIndex(e) == IF e = Body THEN 1 ELSE indexOf(children(parentElement(e)), e)

\* the number of ancestors-or-self below the body
RECURSIVE Depth(_)
Depth(e) == IF e = Body THEN 0 ELSE 1 + Depth(parentElement(e))

\* e is a or a descendant of a
RECURSIVE IsWithin(_, _)
IsWithin(e, a) == e = a \/ (e # Body /\ IsWithin(parentElement(e), a))

-----------------------------------------------------------------------------
(* generateUniqueSelector *)

SelHash      == <<"#">>
SelDot       == <<".">>
SelChild     == <<" ", ">", " ">>
SelNthOpen   == <<":","n","t","h","-","c","h","i","l","d","(">>
SelNthClose  == <<")">>
SelTestIdOpen == <<"[","d","a","t","a","-","t","e","s","t","i","d","=","\"">>
SelNpOpen    == <<"[","d","a","t","a","-","n","p","=","\"">>
SelAttrClose == <<"\"","]">>

\* path.length > 10 ends the walk
MaxPathLength == 10
\* classes.slice(0, 2)
MaxClasses == 2

\* one level of the walk: tag, '.' + the first two classes, ':nth-child(i)'
PathSegment(current) ==
    LET tag == ToLowerCase(Node(current).tagName)
        classes == Node(current).classList
        withClasses ==
            IF Len(classes) > 0
            THEN tag \o SelDot \o Join(SliceFirst(classes, MaxClasses), SelDot)
            ELSE tag
        index == siblingIndex(current)
    IN  IF index >= 0
        THEN withClasses \o SelNthOpen \o NumToStr(index + 1) \o SelNthClose
        ELSE withClasses

\* WalkPath with the walk ended after three levels instead of ten
RECURSIVE WalkPathShallow(_, _)
WalkPathShallow(current, path) ==
    IF current = NoParent \/ current = Body THEN path
    ELSE IF Node(current).id # <<>>
         THEN <<SelHash \o Node(current).id>> \o path
         ELSE IF Len(path) + 1 > 3
              THEN <<PathSegment(current)>> \o path
              ELSE WalkPathShallow(parentElement(current), <<PathSegment(current)>> \o path)

\* WalkPath writing tag#id for an ancestor with an id
RECURSIVE WalkPathTagAndId(_, _)
WalkPathTagAndId(current, path) ==
    IF current = NoParent \/ current = Body THEN path
    ELSE IF Node(current).id # <<>>
         THEN <<ToLowerCase(Node(current).tagName) \o SelHash \o Node(current).id>> \o path
         ELSE IF Len(path) + 1 > MaxPathLength
              THEN <<PathSegment(current)>> \o path
              ELSE WalkPathTagAndId(parentElement(current), <<PathSegment(current)>> \o path)

\* the while loop: current is the element to visit, path the segments so far
RECURSIVE WalkPath(_, _)
WalkPath(current, path) ==
    IF current = NoParent \/ current = Body THEN path
    ELSE IF Node(current).id # <<>>
         THEN <<SelHash \o Node(current).id>> \o path
         ELSE IF Len(path) + 1 > MaxPathLength
              THEN <<PathSegment(current)>> \o path
              ELSE WalkPath(parentElement(current), <<PathSegment(current)>> \o path)

\* generateUniqueSelector with data-testid tried before the id
generateUniqueSelectorTestIdFirst(element) ==
    IF Node(element).testid # <<>>
    THEN SelTestIdOpen \o Node(element).testid \o SelAttrClose
    ELSE IF Node(element).id # <<>>
    THEN SelHash \o Node(element).id
    ELSE IF Node(element).np # <<>>
    THEN SelNpOpen \o Node(element).np \o SelAttrClose
    ELSE Join(WalkPath(element, <<>>), SelChild)

\* generateUniqueSelector with data-np tried before data-testid
generateUniqueSelectorNpFirst(element) ==
    IF Node(element).id # <<>>
    THEN SelHash \o Node(element).id
    ELSE IF Node(element).np # <<>>
    THEN SelNpOpen \o Node(element).np \o SelAttrClose
    ELSE IF Node(element).testid # <<>>
    THEN SelTestIdOpen \o Node(element).testid \o SelAttrClose
    ELSE Join(WalkPath(element, <<>>), SelChild)

generateUniqueSelector(element) ==
    IF Node(element).id # <<>>
    THEN SelHash \o Node(element).id
    ELSE IF Node(element).testid # <<>>
    THEN SelTestIdOpen \o Node(element).testid \o SelAttrClose
    ELSE IF Node(element).np # <<>>
    THEN SelNpOpen \o Node(element).np \o SelAttrClose
    ELSE Join(WalkPath(element, <<>>), SelChild)

\* the domPath walk: tag, '#id' when there is one; path.length > 8 ends it
MaxDomPath == 8
RECURSIVE WalkDomPath(_, _)
WalkDomPath(current, path) ==
    IF current = NoParent \/ current = Body THEN path
    ELSE LET tag == ToLowerCase(Node(current).tagName)
             part == IF Node(current).id # <<>>
                     THEN tag \o SelHash \o Node(current).id ELSE tag
             next == <<part>> \o path
         IN  IF Len(next) > MaxDomPath THEN next
             ELSE WalkDomPath(parentElement(current), next)

getDomPath(element) == WalkDomPath(element, <<>>)

\* the descriptor; the geometry, the component name, the text and the ARIA
\* attributes are read from the page and not used by any selector
getElementInfo(element) ==
    [ tagName        |-> ToLowerCase(Node(element).tagName),
      id             |-> Node(element).id,
      classList      |-> Node(element).classList,
      uniqueSelector |-> generateUniqueSelector(element),
      domPath        |-> getDomPath(element),
      dataTestId     |-> Node(element).testid ]

NoInfo == [tagName |-> <<>>, id |-> <<>>, classList |-> <<>>,
           uniqueSelector |-> <<>>, domPath |-> <<>>, dataTestId |-> <<>>]

-----------------------------------------------------------------------------
(* document.querySelectorAll: the browser's reading of a selector string.    *)
(* The grammar covered is the one the generator writes in: compound          *)
(* selectors joined by the child combinator ' > ', each a type selector or   *)
(* '#id' followed by '.class' and ':nth-child(n)' parts.  A string outside   *)
(* the grammar is a syntax error: the query throws and matches nothing.      *)

Digits         == Range(DigitChars)
NameStartChars == Range(LowerChars) \cup Range(UpperChars) \cup {"_"}
NameChars      == NameStartChars \cup Digits \cup {"-"}

\* the index of the last character of the longest run of name characters
\* that starts at i (i - 1 when there is none)
RECURSIVE NameEnd(_, _)
NameEnd(s, i) ==
    IF i <= Len(s) /\ s[i] \in NameChars THEN NameEnd(s, i + 1) ELSE i - 1

RECURSIVE DigitsEnd(_, _)
DigitsEnd(s, i) ==
    IF i <= Len(s) /\ s[i] \in Digits THEN DigitsEnd(s, i + 1) ELSE i - 1

DigitValue(c) == (CHOOSE i \in DOMAIN DigitChars : DigitChars[i] = c) - 1

RECURSIVE StrToNum(_)
StrToNum(s) ==
    IF Len(s) = 0 THEN 0
    ELSE 10 * StrToNum(SubSeq(s, 1, Len(s) - 1)) + DigitValue(s[Len(s)])

HasPrefixAt(s, i, prefix) ==
    /\ i + Len(prefix) - 1 <= Len(s)
    /\ SubSeq(s, i, i + Len(prefix) - 1) = prefix

\* the compound selectors of a selector string, split at ' > '
RECURSIVE SplitChild(_)
SplitChild(s) ==
    IF \E i \in DOMAIN s : HasPrefixAt(s, i, SelChild)
    THEN LET i == CHOOSE k \in DOMAIN s :
                      /\ HasPrefixAt(s, k, SelChild)
                      /\ \A j \in 1..(k - 1) : ~HasPrefixAt(s, j, SelChild)
         IN  <<SubSeq(s, 1, i - 1)>> \o SplitChild(SubSeq(s, i + Len(SelChild), Len(s)))
    ELSE <<s>>

NoCompound == [ok |-> FALSE, tag |-> <<>>, ids |-> {}, classes |-> {}, nths |-> {}]

\* the parts of a compound selector from position i on, added to acc
RECURSIVE ParseParts(_, _, _)
ParseParts(s, i, acc) ==
    IF i > Len(s) THEN acc
    ELSE IF s[i] \in {".", "#"}
    THEN LET e == NameEnd(s, i + 1)
             name == SubSeq(s, i + 1, e)
         IN  IF e < i + 1 \/ s[i + 1] \in Digits THEN NoCompound
             ELSE IF s[i] = "."
             THEN ParseParts(s, e + 1, [acc EXCEPT !.classes = @ \cup {name}])
             ELSE ParseParts(s, e + 1, [acc EXCEPT !.ids = @ \cup {name}])
    ELSE IF HasPrefixAt(s, i, SelNthOpen)
    THEN LET d == i + Len(SelNthOpen)
             e == DigitsEnd(s, d)
         IN  IF e < d \/ ~HasPrefixAt(s, e + 1, SelNthClose) THEN NoCompound
             ELSE ParseParts(s, e + 2,
                      [acc EXCEPT !.nths = @ \cup {StrToNum(SubSeq(s, d, e))}])
    ELSE NoCompound

ParseCompound(s) ==
    IF Len(s) = 0 THEN NoCompound
    ELSE LET e == IF s[1] \in NameStartChars THEN NameEnd(s, 1) ELSE 0
         IN  ParseParts(s, e + 1,
                 [ok |-> TRUE, tag |-> SubSeq(s, 1, e), ids |-> {}, classes |-> {},
                  nths |-> {}])

ParseSelector(s) ==
    LET parts == SplitChild(s)
    IN  [i \in DOMAIN parts |-> ParseCompound(parts[i])]

\* element.matches for one compound selector; type selectors match HTML
\* elements without regard to case
MatchesCompound(e, c) ==
    /\ c.ok
    /\ c.tag = <<>> \/ ToLowerCase(c.tag) = ToLowerCase(Node(e).tagName)
    /\ \A i \in c.ids : Node(e).id = i
    /\ c.classes \subseteq Range(Node(e).classList)
    /\ \A n \in c.nths : siblingIndex(e) + 1 = n

\* e matches compounds[k], its parent compounds[k-1], and so on up
RECURSIVE MatchesChain(_, _, _)
MatchesChain(e, compounds, k) ==
    /\ MatchesCompound(e, compounds[k])
    /\ \/ k = 1
       \/ /\ parentElement(e) # NoParent
          /\ MatchesChain(parentElement(e), compounds, k - 1)

\* the elements document.querySelectorAll(s) returns (none when it throws)
querySelectorAll(s) ==
    LET compounds == ParseSelector(s)
    IN  IF \E i \in DOMAIN compounds : ~compounds[i].ok THEN {}
        ELSE {e \in 0..Count : MatchesChain(e, compounds, Len(compounds))}

-----------------------------------------------------------------------------
(* The page and the inspector *)

InitDom ==
    /\ nodes = <<>>
    /\ hoveredElement = NoElement
    /\ elementInfo = NoInfo

\* every element is the only child of the one before it, and all below the
\* first are chain elements
IsChain ==
    \A i \in Elements :
        /\ nodes[i].parent = i - 1
        /\ i > 1 => [f \in DOMAIN nodes[i] \ {"parent"} |-> nodes[i][f]] \in ChainKinds

\* parent.appendChild(element): anywhere and anything while the page is small;
\* a page that is one nested chain grows deeper, up to MaxNodes levels
AppendChild(p, kind) ==
    /\ IF Count < MaxBushy
       THEN p \in 0..Count /\ kind \in ElementKinds
       ELSE Count < MaxNodes /\ IsChain /\ p = Count /\ kind \in ChainKinds
    /\ nodes' = Append(nodes, [parent |-> p] @@ kind)
    /\ UNCHANGED <<hoveredElement, elementInfo>>
    /\ UNCHANGED <<storeVars, overlayVars, panelVars>>

\* ElementInspector.handleMouseMove while armed, target the topmost eligible
\* element under the pointer
HandleMouseMove(target) ==
    /\ target \in Elements
    /\ target # hoveredElement
    /\ hoveredElement' = target
    /\ elementInfo' = getElementInfo(target)
    /\ UNCHANGED nodes
    /\ UNCHANGED <<storeVars, overlayVars, panelVars>>

-----------------------------------------------------------------------------
(* Bounds of the annotation store *)

\* the clock runs from 1 to MaxTime
MaxTime == 2
\* entries the mapping may hold
MaxAnnotations == 2

-----------------------------------------------------------------------------
(* JavaScript objects: a Record<string, T> is its entries in insertion order *)

\* undefined where an object is expected, and where a string is expected
Undefined == [undefined |-> TRUE]
UndefinedString == "<undefined>"

ObjHas(obj, k) == \E i \in DOMAIN obj : obj[i].key = k

\* obj[k]
ObjGet(obj, k) ==
    IF ObjHas(obj, k) THEN obj[CHOOSE i \in DOMAIN obj : obj[i].key = k].value
    ELSE Undefined

\* { ...obj, [k]: v }: an existing key keeps its place, a new one goes last
ObjSet(obj, k, v) ==
    IF ObjHas(obj, k)
    THEN [i \in DOMAIN obj |-> IF obj[i].key = k THEN [key |-> k, value |-> v] ELSE obj[i]]
    ELSE Append(obj, [key |-> k, value |-> v])

\* next = { ...obj }; delete next[k]
ObjDelete(obj, k) ==
    LET Keep(entry) == entry.key # k IN SelectSeq(obj, Keep)

\* Object.keys, Object.values
ObjKeys(obj) == [i \in DOMAIN obj |-> obj[i].key]
ObjValues(obj) == [i \in DOMAIN obj |-> obj[i].value]

-----------------------------------------------------------------------------
(* Annotations *)

STATUS_OPTIONS == <<"pending", "in-progress", "resolved", "dismissed">>
FILTER_OPTIONS == <<"all">> \o STATUS_OPTIONS

STATUS_CONFIG ==
    [ s \in Range(STATUS_OPTIONS) |->
        CASE s = "pending"     -> [label |-> "Pending",     icon |-> "hourglass"]
          [] s = "in-progress" -> [label |-> "In Progress", icon |-> "wrench"]
          [] s = "resolved"    -> [label |-> "Resolved",    icon |-> "check"]
          [] s = "dismissed"   -> [label |-> "Dismissed",   icon |-> "cross"] ]

\* the suffixes Math.random().toString(36).slice(2, 9) may give: one value, so
\* that two ids made in the same millisecond are the same id
RandomSuffixes == {"k3f9x0a"}

\* generateId: 'anno-' + Date.now() + '-' + suffix; the two parts determine the
\* string and are kept apart
generateId(time, suffix) == [time |-> time, rand |-> suffix]

AllIds == {generateId(t, r) : t \in 1..MaxTime, r \in RandomSuffixes}

\* the elements a click may open the dialog on, as AnnotationSystem.handleClick
\* describes them
ClickTargets ==
    { [tagName |-> "button", id |-> "submit-btn", uniqueSelector |-> "#submit-btn",
       componentName |-> UndefinedString, textContent |-> "Submit"] }

\* what the user may have typed when Save is pressed
Comments == {"button should be disabled", "   "}

\* String.prototype.trim, on the comments above
Trim(comment) == IF comment = "   " THEN "" ELSE comment

generateAIPrompt(info, comment) ==
    [element |-> info.uniqueSelector, request |-> comment]

\* the aiPrompt memo's value for an empty comment: the empty string
NoPrompt == [element |-> "", request |-> ""]

NoDialog == [closed |-> TRUE]

\* lastCall after a handler that called neither the store, the clipboard nor
\* the toast
NoCall == [op |-> "none"]

\* JSON.stringify of a record: a property whose value is undefined is left out
JsonOf(record) ==
    LET defined == {f \in DOMAIN record : record[f] # UndefinedString}
    IN  [f \in defined |-> record[f]]

\* JSON.stringify of an annotation
JsonOfAnnotation(anno) ==
    IF "elementInfo" \in DOMAIN anno THEN [anno EXCEPT !.elementInfo = JsonOf(@)] ELSE anno

\* JSON.stringify of the mapping: its members in the order of its keys
JsonStringify(obj) ==
    [json |-> [i \in DOMAIN obj |-> <<obj[i].key, JsonOfAnnotation(obj[i].value)>>]]

\* JSON.parse of a stored item
JsonParse(item) ==
    [i \in DOMAIN item.json |-> [key |-> item.json[i][1], value |-> item.json[i][2]]]

NoItem == [absent |-> TRUE]

\* an atom that writes the item only for a mapping with entries
atomWithStorageWriteNonEmpty(item, value) ==
    IF Len(value) = 0 THEN item ELSE JsonStringify(value)

\* atomWithStorage's write: storage.setItem(key, JSON.stringify(value))
atomWithStorageWrite(item, value) == JsonStringify(value)

\* atomWithStorage's read at creation, with getOnInit: the stored item parsed,
\* the initial value {} when there is none
atomWithStorageInit(item) == IF item = NoItem THEN <<>> ELSE JsonParse(item)

\* setAnnotations(next): the atom's value and the stored item
setAnnotations(next) ==
    /\ annotations' = next
    /\ localStorage' = atomWithStorageWrite(localStorage, next)

InitStore ==
    /\ localStorage = NoItem
    /\ annotations = atomWithStorageInit(localStorage)
    /\ dialogElementInfo = NoDialog
    /\ filter = "all"
    /\ now = 1
    /\ lastCall = NoCall

-----------------------------------------------------------------------------
(* AnnotationSystem and AnnotationDialog *)

\* AnnotationSystem.handleClick in annotation mode, on an element outside the
\* tool's own dialog and badges
HandleClick(info) ==
    /\ info \in ClickTargets
    /\ dialogElementInfo' = info
    /\ lastCall' = NoCall
    /\ UNCHANGED <<annotations, filter, now>>
    /\ UNCHANGED <<domVars, overlayVars, panelVars>>

\* the dialog's onClose: Escape, Cancel, the close button, the backdrop
HandleCloseDialog ==
    /\ dialogElementInfo # NoDialog
    /\ dialogElementInfo' = NoDialog
    /\ lastCall' = NoCall
    /\ UNCHANGED <<annotations, filter, now>>
    /\ UNCHANGED <<domVars, overlayVars, panelVars>>

\* a record whose selector is the element's tag name
NewAnnotationSelectorFromTag(info, comment, suffix) ==
    [ id         |-> generateId(now, suffix),
      selector   |-> info.tagName,
      elementInfo |-> info,
      comment    |-> comment,
      aiPrompt   |-> IF comment # "" THEN generateAIPrompt(info, comment) ELSE NoPrompt,
      timestamp  |-> now,
      status     |-> "pending" ]

\* the record AnnotationDialog.handleSave hands to onSave
NewAnnotation(info, comment, suffix) ==
    [ id         |-> generateId(now, suffix),
      selector   |-> info.uniqueSelector,
      elementInfo |-> info,
      comment    |-> comment,
      aiPrompt   |-> IF comment # "" THEN generateAIPrompt(info, comment) ELSE NoPrompt,
      timestamp  |-> now,
      status     |-> "pending" ]

\* the updater without the spread of prev
handleSaveAnnotationAlone(prev, annotation) == <<[key |-> annotation.id, value |-> annotation]>>

\* the updater handleSaveAnnotation gives setAnnotations
handleSaveAnnotation(prev, annotation) == ObjSet(prev, annotation.id, annotation)

\* AnnotationDialog.handleSave, then AnnotationSystem.handleSaveAnnotation
HandleSave(comment, suffix) ==
    /\ dialogElementInfo # NoDialog
    /\ comment \in Comments
    /\ suffix \in RandomSuffixes
    /\ IF Trim(comment) = ""
       THEN /\ lastCall' = NoCall
            /\ UNCHANGED <<annotations, dialogElementInfo, annotationCount, localStorage>>
       ELSE LET annotation == NewAnnotation(dialogElementInfo, comment, suffix)
                next == handleSaveAnnotation(annotations, annotation)
            IN  /\ Len(next) <= MaxAnnotations
                /\ setAnnotations(next)
                /\ dialogElementInfo' = NoDialog
                /\ lastCall' = [op |-> "save", annotation |-> annotation,
                                count |-> Len(ObjKeys(next))]
                /\ annotationCount' = Len(ObjKeys(next))
    /\ UNCHANGED <<filter, now>>
    /\ UNCHANGED <<domVars, overlayVars, reloadVars, processVars>>

\* time passes
Tick ==
    /\ now < MaxTime
    /\ now' = now + 1
    /\ lastCall' = NoCall
    /\ UNCHANGED <<annotations, dialogElementInfo, filter>>
    /\ UNCHANGED <<domVars, overlayVars, panelVars>>

-----------------------------------------------------------------------------
(* AnnotationsDashboard, rendered with the atom's value and its setter *)

\* Array.prototype.sort((a, b) => b.timestamp - a.timestamp): stable, so each
\* element goes after the elements already placed that do not come after it
RECURSIVE InsertDesc(_, _)
InsertDesc(sorted, a) ==
    IF Len(sorted) = 0 THEN <<a>>
    ELSE IF a.timestamp - Head(sorted).timestamp > 0
         THEN <<a>> \o sorted
         ELSE <<Head(sorted)>> \o InsertDesc(Tail(sorted), a)

RECURSIVE SortDescFrom(_, _, _)
SortDescFrom(list, i, sorted) ==
    IF i > Len(list) THEN sorted
    ELSE SortDescFrom(list, i + 1, InsertDesc(sorted, list[i]))

\* the list left in the order of Object.values
sortByTimestampNone(list) == list

sortByTimestampDesc(list) == SortDescFrom(list, 1, <<>>)

\* the memo with the in-progress filter spelled in_progress
annotationListForMisspelt(obj, f) ==
    LET list == sortByTimestampDesc(ObjValues(obj))
        Matches(a) == a.status = (IF f = "in-progress" THEN "in_progress" ELSE f)
    IN  IF f = "all" THEN list ELSE SelectSeq(list, Matches)

\* the annotationList memo for a mapping and a filter
annotationListFor(obj, f) ==
    LET list == sortByTimestampDesc(ObjValues(obj))
        Matches(a) == a.status = f
    IN  IF f = "all" THEN list ELSE SelectSeq(list, Matches)

annotationList == annotationListFor(annotations, filter)

\* { ...annotations[id], status }
SpreadStatus(record, status) ==
    IF record = Undefined THEN [status |-> status]
    ELSE [record EXCEPT !.status = status]

\* updateStatus without the spread of the record: [id]: { status }
updateStatusBare(obj, id, status) == ObjSet(obj, id, [status |-> status])

\* the mapping updateStatus passes to onUpdateAnnotations
updateStatus(obj, id, status) ==
    ObjSet(obj, id, SpreadStatus(ObjGet(obj, id), status))

\* deleteAnnotation by position: splice(indexOf(id), 1), which drops the last
\* entry when the id is absent
deleteAnnotationByIndex(obj, id) ==
    IF ObjHas(obj, id) THEN ObjDelete(obj, id)
    ELSE SubSeq(obj, 1, Len(obj) - 1)

\* the mapping deleteAnnotation passes to onUpdateAnnotations
deleteAnnotation(obj, id) == ObjDelete(obj, id)

\* handlers memoised at mount, which go on reading the mapping of the first
\* render
annotationsPropAtMount == <<>>

\* the annotations prop the dashboard's handlers read.  The handlers are
\* created anew in every render, and a write to the atom made in an event
\* handler is rendered before the next event is dispatched, so they read the
\* atom's value.
annotationsProp == annotations

\* the ids of the rows on display: each row's select and Delete button call
\* the handlers with anno.id
DisplayedIds == {annotationList[i].id : i \in DOMAIN annotationList}

SetFilter(f) ==
    /\ f \in Range(FILTER_OPTIONS)
    /\ f # filter
    /\ filter' = f
    /\ lastCall' = NoCall
    /\ UNCHANGED <<annotations, dialogElementInfo, now>>
    /\ UNCHANGED <<domVars, overlayVars, panelVars>>

\* updateStatus(id, status), called with any id
UpdateStatusCall(id, status) ==
    /\ status \in Range(STATUS_OPTIONS)
    /\ LET next == updateStatus(annotationsProp, id, status)
       IN  /\ Len(next) <= MaxAnnotations
           /\ setAnnotations(next)
    /\ lastCall' = [op |-> "updateStatus", id |-> id, status |-> status]
    /\ UNCHANGED <<dialogElementInfo, filter, now>>
    /\ UNCHANGED <<domVars, overlayVars, annotationCount, reloadVars, processVars>>

\* a row's status select changes
UpdateStatus(id, status) ==
    /\ id \in DisplayedIds
    /\ UpdateStatusCall(id, status)

\* deleteAnnotation(id), called with any id
DeleteCall(id) ==
    /\ setAnnotations(deleteAnnotation(annotationsProp, id))
    /\ lastCall' = [op |-> "delete", id |-> id, toast |-> "Annotation deleted"]
    /\ UNCHANGED <<dialogElementInfo, filter, now>>
    /\ UNCHANGED <<domVars, overlayVars, annotationCount, reloadVars, processVars>>

\* a row's Delete button
Delete(id) ==
    /\ id \in DisplayedIds
    /\ DeleteCall(id)

\* clearAll without the return on a declined confirmation
clearAllAnyway(confirmed) ==
    [onUpdateAnnotations |-> << <<>> >>, onToast |-> <<"All annotations cleared">>]

\* clearAll: what it passes to onUpdateAnnotations and to onToast
clearAll(confirmed) ==
    IF ~confirmed THEN [onUpdateAnnotations |-> <<>>, onToast |-> <<>>]
    ELSE [onUpdateAnnotations |-> << <<>> >>, onToast |-> <<"All annotations cleared">>]

\* Clear All; confirmed is the answer to window.confirm.  The header buttons
\* are rendered only while the mapping has entries.
ClearAll(confirmed) ==
    /\ Len(annotations) > 0
    /\ LET call == clearAll(confirmed)
       IN  /\ IF call.onUpdateAnnotations # <<>>
              THEN setAnnotations(call.onUpdateAnnotations[1])
              ELSE UNCHANGED <<annotations, localStorage>>
           /\ lastCall' = IF call.onToast # <<>>
                          THEN [op |-> "clearAll", confirmed |-> confirmed,
                                toast |-> call.onToast[1]]
                          ELSE [op |-> "clearAll", confirmed |-> confirmed]
    /\ UNCHANGED <<dialogElementInfo, filter, now>>
    /\ UNCHANGED <<domVars, overlayVars, annotationCount, reloadVars, processVars>>

\* createAnnotationsAtom called with the key of the store: the new atom's
\* first value
CreateAnnotationsAtom ==
    /\ lastCall' = [op |-> "createAnnotationsAtom",
                    value |-> atomWithStorageInit(localStorage)]
    /\ UNCHANGED <<annotations, dialogElementInfo, filter, now>>
    /\ UNCHANGED <<domVars, overlayVars, panelVars>>

\* exportAsJson: the array of the records, each with its elementInfo serialized
exportAsJson(list) ==
    [i \in DOMAIN list |-> [list[i] EXCEPT !.elementInfo = JsonOf(@)]]

\* A markdown document is the sequence of the pieces the code concatenates:
\* literal text, a date through toLocaleString, a number, a prompt.
Text(s) == [text |-> s]
DateText(t) == [localeString |-> t]
NumText(n) == [number |-> n]
PromptText(p) == [prompt |-> p]
\* a line of three backquotes, which opens or closes a code block
FenceText == [fence |-> 3]

\* the document for an empty list
MdEmpty == <<Text("# Debug Annotations\n\nNo annotations found.")>>

\* the head of the document for a list of n entries
MdHeader(date, n) ==
    << Text("# Debug Annotations\n\n_Exported: "), DateText(date),
       Text("_\n_Total: "), NumText(n), Text("_\n\n---\n\n") >>

\* one entry's block of the markdown document
MdBlock(anno) ==
    << Text("## "), Text(STATUS_CONFIG[anno.status].icon), Text(" "),
       Text(anno.elementInfo.uniqueSelector), Text("\n\n"),
       Text("- **Status:** "), Text(STATUS_CONFIG[anno.status].label), Text("\n"),
       Text("- **Component:** "),
       Text(IF anno.elementInfo.componentName = UndefinedString THEN "Unknown"
            ELSE anno.elementInfo.componentName), Text("\n"),
       Text("- **Created:** "), DateText(anno.timestamp), Text("\n\n"),
       Text("> "), Text(anno.comment), Text("\n\n") >>
    \o (IF anno.aiPrompt # NoPrompt
        THEN <<FenceText, Text("\n"), PromptText(anno.aiPrompt), Text("\n"), FenceText,
               Text("\n\n")>>
        ELSE <<>>)
    \o <<Text("---\n\n")>>

RECURSIVE MdBlocksFrom(_, _)
MdBlocksFrom(list, i) ==
    IF i > Len(list) THEN <<>> ELSE MdBlock(list[i]) \o MdBlocksFrom(list, i + 1)

\* exportAsMarkdown without the early return for an empty list
exportAsMarkdownNoEmptyCase(list, date) ==
    MdHeader(date, Len(list)) \o MdBlocksFrom(list, 1)

\* exportAsMarkdown: the fixed text for an empty list, else the head and one
\* block per entry
exportAsMarkdown(list, date) ==
    IF Len(list) = 0 THEN MdEmpty
    ELSE MdHeader(date, Len(list)) \o MdBlocksFrom(list, 1)

\* handleExport serializing the displayed list
exportListDisplayed(obj, f) == annotationListFor(obj, f)

\* the list handleExport serializes: every entry, whatever filter f is selected
exportList(obj, f) == sortByTimestampDesc(ObjValues(obj))

\* Export JSON / Export MD: the content goes to the clipboard, the count to
\* the toast
HandleExport(format) ==
    /\ Len(annotations) > 0
    /\ format \in {"json", "markdown"}
    /\ LET list == exportList(annotations, filter)
           content == IF format = "json" THEN exportAsJson(list)
                      ELSE exportAsMarkdown(list, now)
       IN  lastCall' = [op |-> "export", format |-> format, clipboard |-> content,
                        exported |-> Len(list)]
    /\ UNCHANGED <<annotations, dialogElementInfo, filter, now>>
    /\ UNCHANGED <<domVars, overlayVars, panelVars>>

\* exportAsMarkdown called with the list of any filter, the empty list included
ExportAsMarkdownCall(f) ==
    /\ f \in Range(FILTER_OPTIONS)
    /\ LET list == annotationListFor(annotations, f)
       IN  lastCall' = [op |-> "exportAsMarkdown", list |-> list,
                        result |-> exportAsMarkdown(list, now)]
    /\ UNCHANGED <<annotations, dialogElementInfo, filter, now>>
    /\ UNCHANGED <<domVars, overlayVars, panelVars>>

-----------------------------------------------------------------------------
(* DebugOverlay with its ElementInspector.  A handler's state updates, the  *)
(* render they cause and the effects of that render are one step.           *)

TagButton == <<"B","U","T","T","O","N">>
ClassDebugOverlay == <<"d","e","b","u","g","-","o","v","e","r","l","a","y">>

DataOverlay    == "data-debug-overlay"
DataInspector  == "data-debug-inspector"
DataAnnotation == "data-debug-annotation"

\* the page of the overlay specifications: a div with a span in it, the
\* overlay's root with a control panel button, the inspector's root with its
\* highlight
PageDiv         == 1
PageSpan        == 2
OverlayRoot     == 3
PanelButton     == 4
InspectorRoot   == 5
InspectorHighlight == 6

OverlayPage ==
    << [parent |-> Body]    @@ Elem(TagDiv, <<>>, <<>>, <<>>, <<ClassA>>),
       [parent |-> PageDiv] @@ Elem(TagSpan, <<>>, TestIdT, NpN, <<>>),
       [parent |-> Body, data |-> DataOverlay]
                            @@ Elem(TagDiv, <<>>, <<>>, <<>>, <<ClassDebugOverlay>>),
       [parent |-> OverlayRoot] @@ Elem(TagButton, <<>>, <<>>, <<>>, <<ClassB>>),
       [parent |-> Body, data |-> DataInspector]
                            @@ Elem(TagDiv, <<>>, <<>>, <<>>, <<>>),
       [parent |-> InspectorRoot] @@ Elem(TagDiv, <<>>, <<>>, <<>>, <<ClassC>>) >>

\* el.closest('[marker]'): el or an ancestor of it carries the attribute
RECURSIVE closest(_, _)
closest(el, marker) ==
    IF el \notin Elements THEN FALSE
    ELSE \/ ("data" \in DOMAIN nodes[el] /\ nodes[el].data = marker)
         \/ closest(parentElement(el), marker)

\* document.elementsFromPoint for a point over element e: e, its ancestors,
\* the body and the root element, topmost first
RECURSIVE ElementsAbove(_)
ElementsAbove(e) ==
    IF e = Html THEN <<Html>>
    ELSE IF e = Body THEN <<Body, Html>>
    ELSE <<e>> \o ElementsAbove(parentElement(e))

\* what the pointer may be over: an element, the bare body, the root element
\* outside the body
PointerPositions == {Html, Body} \cup (PageDiv..InspectorHighlight)

\* the stack at a position, below the inspector's highlight or not
elementsFromPoint(over, belowHighlight) ==
    (IF belowHighlight THEN <<InspectorHighlight>> ELSE <<>>) \o ElementsAbove(over)

\* elementsAtPoint.find(...): the first element that is outside the
\* inspector's own subtree and is neither the root element nor the body
RECURSIVE FindTarget(_, _)
FindTarget(elementsAtPoint, i) ==
    IF i > Len(elementsAtPoint) THEN NoElement
    ELSE IF /\ ~closest(elementsAtPoint[i], DataInspector)
            /\ elementsAtPoint[i] # Html
            /\ elementsAtPoint[i] # Body
         THEN elementsAtPoint[i]
         ELSE FindTarget(elementsAtPoint, i + 1)

NoListeners == [mousemove |-> 0, click |-> 0, keydown |-> 0]
AddListeners(l) == [type \in DOMAIN l |-> l[type] + 1]
\* removeEventListener of a listener that is not registered does nothing
RemoveListeners(l) == [type \in DOMAIN l |-> IF l[type] > 0 THEN l[type] - 1 ELSE 0]

\* the inspector is mounted and its enabled prop is true
ArmedIn(st) == st.enabled /\ st.showInspector
Armed == ArmedIn(state)

\* the effect that never removes what its last run registered
inspectorEffectNoCleanup(l, wasArmed, armed) ==
    IF armed THEN AddListeners(l) ELSE l

\* ElementInspector's effect after a render: the cleanup of the last run, which
\* registered listeners when the inspector was armed, then the effect itself
inspectorEffect(l, wasArmed, armed) ==
    IF armed
    THEN AddListeners(IF wasArmed THEN RemoveListeners(l) ELSE l)
    ELSE IF wasArmed THEN RemoveListeners(l) ELSE l

NoTimer == 0
NoProcessInfo == "null"
ProcessInfos == {"pid 1", "pid 2"}

\* DebugOverlay's other state at mount: the count is set from the mapping,
\* which is empty
InitPanel ==
    /\ annotationCount = 0
    /\ coldReloadActive = FALSE
    /\ coldReloadProgress = 0
    /\ coldReloadTimeoutRef = NoTimer
    /\ intervals = <<>>
    /\ timerIds = 0
    /\ reloaded = FALSE
    /\ showProcessInfo = FALSE
    /\ processInfo = NoProcessInfo
    /\ pollInterval = FALSE
    /\ inFlight = 0

InitOverlay ==
    /\ state = [enabled |-> TRUE, showFps |-> FALSE, showInspector |-> FALSE,
                showAnnotations |-> FALSE]
    /\ listeners = NoListeners
    /\ InitPanel
    /\ getProcessInfo = TRUE

\* whether FPSOverlay is rendered
FpsMountedIn(st) == st.enabled /\ st.showFps

\* whether the render makes FPSOverlay's process info effect run: at mount,
\* and when showProcessInfo changed
FpsEffectRuns(newState, newShow) ==
    FpsMountedIn(newState) /\ (~FpsMountedIn(state) \/ newShow # showProcessInfo)

\* whether that run of the effect calls fetchProcessInfo
FpsFetches(newState, newShow) ==
    FpsEffectRuns(newState, newShow) /\ getProcessInfo /\ newShow

\* FPSOverlay under a render of DebugOverlay.  Unmounted, its state and its
\* interval are gone and what its promises do no longer shows.  When its
\* effect runs, the cleanup of the last run clears the interval; then process
\* info is set to null when it is off, and otherwise fetched at once and
\* every 2000 ms.
RenderFps(newState, newShow) ==
    /\ showProcessInfo' = newShow
    /\ UNCHANGED getProcessInfo
    /\ IF ~FpsMountedIn(newState)
       THEN /\ processInfo' = NoProcessInfo
            /\ pollInterval' = FALSE
            /\ inFlight' = 0
       ELSE IF ~FpsEffectRuns(newState, newShow)
       THEN UNCHANGED <<processInfo, pollInterval, inFlight>>
       ELSE LET pending == IF FpsMountedIn(state) THEN inFlight ELSE 0
                shown == IF FpsMountedIn(state) THEN processInfo ELSE NoProcessInfo
            IN  IF FpsFetches(newState, newShow)
                THEN /\ pending < MaxInFlight
                     /\ processInfo' = shown
                     /\ pollInterval' = TRUE
                     /\ inFlight' = pending + 1
                ELSE /\ processInfo' = NoProcessInfo
                     /\ pollInterval' = FALSE
                     /\ inFlight' = pending

\* a render of DebugOverlay with the new state: the inspector's effect runs,
\* and a disabled or unmounted inspector holds no hover target
Render(newState) ==
    /\ state' = newState
    /\ RenderFps(newState, showProcessInfo)
    /\ listeners' = inspectorEffect(listeners, Armed, ArmedIn(newState))
    /\ IF ArmedIn(newState)
       THEN UNCHANGED <<hoveredElement, elementInfo>>
       ELSE hoveredElement' = NoElement /\ elementInfo' = NoInfo

\* the control panel's buttons
HandleToggleFps ==
    /\ state.enabled
    /\ Render([state EXCEPT !.showFps = ~@])
    /\ lastCall' = IF FpsFetches(state', showProcessInfo)
                   THEN [op |-> "getProcessInfo"] ELSE NoCall
    /\ UNCHANGED <<nodes, annotations, dialogElementInfo, filter, now,
                   annotationCount, reloadVars, localStorage>>

HandleToggleInspector ==
    /\ state.enabled
    /\ Render([state EXCEPT !.showInspector = ~@])
    /\ lastCall' = IF FpsFetches(state', showProcessInfo)
                   THEN [op |-> "getProcessInfo"] ELSE NoCall
    /\ UNCHANGED <<nodes, annotations, dialogElementInfo, filter, now,
                   annotationCount, reloadVars, localStorage>>

HandleToggleAnnotations ==
    /\ state.enabled
    /\ Render([state EXCEPT !.showAnnotations = ~@])
    /\ lastCall' = IF FpsFetches(state', showProcessInfo)
                   THEN [op |-> "getProcessInfo"] ELSE NoCall
    /\ UNCHANGED <<nodes, annotations, dialogElementInfo, filter, now,
                   annotationCount, reloadVars, localStorage>>

\* the control panel's close button: DebugOverlay renders nothing from then on
HandleClose ==
    /\ state.enabled
    /\ ~reloaded
    /\ Render([state EXCEPT !.enabled = FALSE])
    /\ lastCall' = [op |-> "close", armed |-> Armed, onClose |-> 1]
    /\ UNCHANGED <<nodes, annotations, dialogElementInfo, filter, now,
                   annotationCount, reloadVars, localStorage>>

\* handleMouseMove whose find does not skip the inspector's own elements
handleMouseMoveIntoInspector(armed, hovered, elementsAtPoint) ==
    LET eligible == SelectSeq(elementsAtPoint, LAMBDA el : el # Html /\ el # Body)
        targetElement == IF eligible = <<>> THEN NoElement ELSE eligible[1]
    IN  IF ~armed THEN hovered
        ELSE IF targetElement # NoElement /\ targetElement # hovered THEN targetElement
        ELSE hovered

\* handleMouseMove: the element to track after a pointer move
handleMouseMove(armed, hovered, elementsAtPoint) ==
    LET targetElement == FindTarget(elementsAtPoint, 1)
    IN  IF ~armed THEN hovered
        ELSE IF targetElement # NoElement /\ targetElement # hovered THEN targetElement
        ELSE hovered

\* a pointer move on the document, to a position over an element of the page
\* or of the tool
MouseMove(over, belowHighlight) ==
    /\ over \in PointerPositions
    /\ over \in Elements \cup {Html, Body}
    /\ belowHighlight => over \in {PageDiv, PageSpan}
    /\ IF listeners.mousemove > 0
       THEN LET target == handleMouseMove(Armed, hoveredElement,
                                         elementsFromPoint(over, belowHighlight))
            IN  IF target # hoveredElement
                THEN /\ hoveredElement' = target
                     /\ elementInfo' = getElementInfo(target)
                     /\ listeners' = inspectorEffect(listeners, Armed, Armed)
                ELSE UNCHANGED <<hoveredElement, elementInfo, listeners>>
       ELSE UNCHANGED <<hoveredElement, elementInfo, listeners>>
    /\ lastCall' = [op |-> "mousemove", handlers |-> listeners.mousemove]
    /\ UNCHANGED <<nodes, state, annotations, dialogElementInfo, filter, now, panelVars>>

\* handleClick without the guard on the tracked element
handleClickAlways(armed, hovered, info) ==
    IF ~armed
    THEN [defaultPrevented |-> FALSE, propagationStopped |-> FALSE, onElementSelect |-> <<>>]
    ELSE [defaultPrevented |-> TRUE, propagationStopped |-> TRUE,
          onElementSelect |-> <<[element |-> hovered, info |-> info]>>]

\* handleClick: what it does to the event and what it passes to onElementSelect
handleClick(armed, hovered, info) ==
    IF ~armed \/ hovered = NoElement \/ info = NoInfo
    THEN [defaultPrevented |-> FALSE, propagationStopped |-> FALSE, onElementSelect |-> <<>>]
    ELSE [defaultPrevented |-> TRUE, propagationStopped |-> TRUE,
          onElementSelect |-> <<[element |-> hovered, info |-> info]>>]

\* a click on the document
Click ==
    /\ lastCall' = [op |-> "click", armed |-> Armed, handlers |-> listeners.click]
                   @@ (IF listeners.click > 0
                       THEN handleClick(Armed, hoveredElement, elementInfo)
                       ELSE [defaultPrevented |-> FALSE, propagationStopped |-> FALSE,
                             onElementSelect |-> <<>>])
    /\ UNCHANGED <<nodes, hoveredElement, elementInfo, state, listeners,
                   annotations, dialogElementInfo, filter, now, panelVars>>

KeyEscape == "Escape"
KeyCtrlShiftD == "Ctrl+Shift+D"
KeyboardKeys == {KeyEscape, KeyCtrlShiftD, "a"}

\* handleKeyDown reacting to every key
handleKeyDownAnyKey(key, armed) == armed

\* handleKeyDown: whether the key press clears the hover target and asks to
\* disable the inspector
handleKeyDown(key, armed) == key = KeyEscape /\ armed

\* a key press on the document; DebugOverlay's onDisable sets showInspector
\* to false
KeyDown(key) ==
    /\ key \in KeyboardKeys
    /\ IF listeners.keydown > 0 /\ handleKeyDown(key, Armed)
       THEN /\ Render([state EXCEPT !.showInspector = FALSE])
            /\ lastCall' = [op |-> "keydown", key |-> key, armed |-> Armed,
                            onDisable |-> listeners.keydown]
       ELSE /\ UNCHANGED <<hoveredElement, elementInfo, state, listeners, processVars>>
            /\ lastCall' = [op |-> "keydown", key |-> key, armed |-> Armed,
                            onDisable |-> 0]
    /\ UNCHANGED <<nodes, annotations, dialogElementInfo, filter, now,
                   annotationCount, reloadVars, localStorage>>

-----------------------------------------------------------------------------
(* The cold reload button of the control panel: hold to reload *)

ColdReloadStep == 10
ColdReloadDone == 100

\* clearInterval(id)
clearInterval(running, id) == [i \in DOMAIN running \ {id} |-> running[i]]

\* handleColdReloadStart, on mouse down: a new interval with its own progress
\* counter; the ref holds the new interval whatever it held
HandleColdReloadStart ==
    /\ state.enabled
    /\ ~reloaded
    /\ timerIds < MaxTimers
    /\ coldReloadActive' = TRUE
    /\ timerIds' = timerIds + 1
    /\ intervals' = intervals @@ (timerIds' :> 0)
    /\ coldReloadTimeoutRef' = timerIds'
    /\ lastCall' = NoCall
    /\ UNCHANGED <<coldReloadProgress, reloaded, annotationCount>>
    /\ UNCHANGED <<domVars, overlayVars, processVars, localStorage,
                   annotations, dialogElementInfo, filter, now>>

\* what handleColdReloadCancel leaves running
handleColdReloadCancel(running, ref) ==
    IF ref # NoTimer THEN clearInterval(running, ref) ELSE running

\* handleColdReloadCancel, on mouse up and on mouse leave
HandleColdReloadCancel ==
    /\ state.enabled
    /\ ~reloaded
    /\ intervals' = handleColdReloadCancel(intervals, coldReloadTimeoutRef)
    /\ coldReloadTimeoutRef' = NoTimer
    /\ coldReloadActive' = FALSE
    /\ coldReloadProgress' = 0
    /\ lastCall' = NoCall
    /\ UNCHANGED <<timerIds, reloaded, annotationCount>>
    /\ UNCHANGED <<domVars, overlayVars, processVars, localStorage,
                   annotations, dialogElementInfo, filter, now>>

\* the callback of interval id, every 200 ms
ColdReloadTick(id) ==
    /\ ~reloaded
    /\ id \in DOMAIN intervals
    /\ LET progress == intervals[id] + ColdReloadStep
       IN  /\ coldReloadProgress' = progress
           /\ IF progress >= ColdReloadDone
              THEN /\ intervals' = clearInterval(intervals, id)
                   /\ reloaded' = TRUE
                   /\ lastCall' = [op |-> "reload"]
              ELSE /\ intervals' = [intervals EXCEPT ![id] = progress]
                   /\ lastCall' = NoCall
                   /\ UNCHANGED reloaded
    /\ UNCHANGED <<coldReloadActive, coldReloadTimeoutRef, timerIds, annotationCount>>
    /\ UNCHANGED <<domVars, overlayVars, processVars, localStorage,
                   annotations, dialogElementInfo, filter, now>>

-----------------------------------------------------------------------------
(* FPSOverlay's process info, fetched from the caller's getProcessInfo *)

\* the control panel's process info button
HandleToggleProcessInfo ==
    /\ state.enabled
    /\ RenderFps(state, ~showProcessInfo)
    /\ lastCall' = IF FpsFetches(state, ~showProcessInfo)
                   THEN [op |-> "getProcessInfo"] ELSE NoCall
    /\ UNCHANGED <<domVars, overlayVars, annotationCount, reloadVars, localStorage,
                   annotations, dialogElementInfo, filter, now>>

\* the interval's callback, every 2000 ms: fetchProcessInfo calls getProcessInfo
PollTick ==
    /\ pollInterval
    /\ inFlight < MaxInFlight
    /\ inFlight' = inFlight + 1
    /\ lastCall' = [op |-> "getProcessInfo"]
    /\ UNCHANGED <<getProcessInfo, showProcessInfo, processInfo, pollInterval>>
    /\ UNCHANGED <<domVars, overlayVars, annotationCount, reloadVars, localStorage,
                   annotations, dialogElementInfo, filter, now>>

\* fetchProcessInfo after await: a call of getProcessInfo resolved with info
FetchResolved(info) ==
    /\ inFlight > 0
    /\ info \in ProcessInfos
    /\ inFlight' = inFlight - 1
    /\ processInfo' = info
    /\ lastCall' = NoCall
    /\ UNCHANGED <<getProcessInfo, showProcessInfo, pollInterval>>
    /\ UNCHANGED <<domVars, overlayVars, annotationCount, reloadVars, localStorage,
                   annotations, dialogElementInfo, filter, now>>

\* a catch block that retries at once
catchFetchErrorRetrying(shown, polling, pending) ==
    [processInfo |-> shown, pollInterval |-> polling, inFlight |-> pending]

\* fetchProcessInfo's catch block: a warning on the console, and nothing else
catchFetchError(shown, polling, pending) ==
    [processInfo |-> shown, pollInterval |-> polling, inFlight |-> pending - 1]

\* a call of getProcessInfo threw or its promise rejected
FetchFailed ==
    /\ inFlight > 0
    /\ LET after == catchFetchError(processInfo, pollInterval, inFlight)
       IN  /\ processInfo' = after.processInfo
           /\ pollInterval' = after.pollInterval
           /\ inFlight' = after.inFlight
    /\ lastCall' = [op |-> "console.warn", warned |-> "[Debug] Failed to fetch process info:"]
    /\ UNCHANGED <<getProcessInfo, showProcessInfo>>
    /\ UNCHANGED <<domVars, overlayVars, annotationCount, reloadVars, localStorage,
                   annotations, dialogElementInfo, filter, now>>

-----------------------------------------------------------------------------
(* Specifications *)

Init == InitDom /\ InitStore /\ InitOverlay

\* the annotation system and the dashboard as the user drives them
Next ==
    \/ \E info \in ClickTargets : HandleClick(info)
    \/ HandleCloseDialog
    \/ \E comment \in Comments, suffix \in RandomSuffixes : HandleSave(comment, suffix)
    \/ Tick
    \/ \E f \in Range(FILTER_OPTIONS) : SetFilter(f)
    \/ \E id \in AllIds, status \in Range(STATUS_OPTIONS) : UpdateStatus(id, status)
    \/ \E id \in AllIds : Delete(id)
    \/ \E confirmed \in BOOLEAN : ClearAll(confirmed)
    \/ \E format \in {"json", "markdown"} : HandleExport(format)
    \/ CreateAnnotationsAtom

Spec == Init /\ [][Next]_vars

\* the dashboard's handlers called with any id, present in the mapping or not
NextCalls ==
    \/ \E info \in ClickTargets : HandleClick(info)
    \/ \E comment \in Comments, suffix \in RandomSuffixes : HandleSave(comment, suffix)
    \/ Tick
    \/ \E id \in AllIds, status \in Range(STATUS_OPTIONS) : UpdateStatusCall(id, status)
    \/ \E id \in AllIds : DeleteCall(id)

SpecCalls == Init /\ [][NextCalls]_vars

\* a page being built and the inspector describing its elements
NextSelector ==
    \/ \E p \in 0..MaxNodes, kind \in ElementKinds \cup ChainKinds : AppendChild(p, kind)
    \/ \E target \in 1..MaxNodes : HandleMouseMove(target)

\* the inspector armed from the start
InitArmed ==
    /\ state = [enabled |-> TRUE, showFps |-> FALSE, showInspector |-> TRUE,
                showAnnotations |-> FALSE]
    /\ listeners = AddListeners(NoListeners)
    /\ InitPanel
    /\ getProcessInfo = TRUE

InitSelector == InitDom /\ InitStore /\ InitArmed

SpecSelector == InitSelector /\ [][NextSelector]_vars

\* the overlay on a page, with the pointer and the keyboard
InitOverlayPage ==
    /\ nodes = OverlayPage
    /\ hoveredElement = NoElement
    /\ elementInfo = NoInfo

NextOverlay ==
    \/ HandleToggleFps
    \/ HandleToggleInspector
    \/ HandleToggleAnnotations
    \/ HandleClose
    \/ \E over \in PointerPositions, belowHighlight \in BOOLEAN :
            MouseMove(over, belowHighlight)
    \/ Click
    \/ \E key \in KeyboardKeys : KeyDown(key)

InitOnPage == InitOverlayPage /\ InitStore /\ InitOverlay

SpecOverlay == InitOnPage /\ [][NextOverlay]_vars

\* the FPS display with process info, with or without a getProcessInfo
\* callback, while the panel's other buttons re-render the overlay
InitProcess ==
    /\ InitOverlayPage
    /\ InitStore
    /\ state = [enabled |-> TRUE, showFps |-> FALSE, showInspector |-> FALSE,
                showAnnotations |-> FALSE]
    /\ listeners = NoListeners
    /\ InitPanel
    /\ getProcessInfo \in BOOLEAN

NextProcess ==
    \/ HandleToggleFps
    \/ HandleToggleInspector
    \/ HandleToggleAnnotations
    \/ HandleToggleProcessInfo
    \/ HandleClose
    \/ PollTick
    \/ \E info \in ProcessInfos : FetchResolved(info)
    \/ FetchFailed

SpecProcess == InitProcess /\ [][NextProcess]_vars

\* the cold reload button pressed and released while its timers run, and the
\* overlay closed
NextReload ==
    \/ HandleColdReloadStart
    \/ HandleColdReloadCancel
    \/ HandleClose
    \/ \E id \in 1..MaxTimers : ColdReloadTick(id)

SpecReload == InitOnPage /\ [][NextReload]_vars

\* the store as the user fills it, and the markdown builder called on its lists
NextExport ==
    \/ \E info \in ClickTargets : HandleClick(info)
    \/ \E comment \in Comments, suffix \in RandomSuffixes : HandleSave(comment, suffix)
    \/ Tick
    \/ \E id \in AllIds, status \in Range(STATUS_OPTIONS) : UpdateStatus(id, status)
    \/ \E id \in AllIds : Delete(id)
    \/ \E f \in Range(FILTER_OPTIONS) : ExportAsMarkdownCall(f)

SpecExport == Init /\ [][NextExport]_vars

-----------------------------------------------------------------------------
(* Properties of the selector generator, under SpecSelector *)

Hovered == Node(hoveredElement)
HasId(e)     == Node(e).id # <<>>
HasTestId(e) == Node(e).testid # <<>>
HasNp(e)     == Node(e).np # <<>>
\* no id, no data-testid, no data-np: the element gets the ancestor path
IsUnmarked(e) == ~HasId(e) /\ ~HasTestId(e) /\ ~HasNp(e)

ContainsStr(s, part) == \E i \in DOMAIN s : HasPrefixAt(s, i, part)
EndsWith(s, part) ==
    Len(s) >= Len(part) /\ SubSeq(s, Len(s) - Len(part) + 1, Len(s)) = part

\* C1: for every element whose id is non-empty the generated selector is
\* exactly '#' followed by the id, whatever its data-testid, data-np, classes,
\* position and ancestors are.
C1_IdSelector ==
    (hoveredElement # NoElement /\ HasId(hoveredElement))
        => elementInfo.uniqueSelector = <<"#">> \o Hovered.id

\* an element with an id, a data-testid, a data-np and a class, nested below
\* another element, has been described
C1_Witness ==
    /\ hoveredElement # NoElement
    /\ HasId(hoveredElement) /\ HasTestId(hoveredElement) /\ HasNp(hoveredElement)
    /\ Len(Hovered.classList) > 0
    /\ parentElement(hoveredElement) # Body
    /\ elementInfo.uniqueSelector = <<"#", "x">>

\* C2: the rules apply in priority order: id, then data-testid, then data-np,
\* and the ancestor path (the only form with :nth-child) exactly when the
\* element has none of the three.
C2_PriorityOrder ==
    hoveredElement # NoElement =>
        LET sel == elementInfo.uniqueSelector
        IN  /\ HasId(hoveredElement) => sel = <<"#">> \o Hovered.id
            /\ (~HasId(hoveredElement) /\ HasTestId(hoveredElement))
                   => sel = SelTestIdOpen \o Hovered.testid \o SelAttrClose
            /\ (~HasId(hoveredElement) /\ ~HasTestId(hoveredElement) /\ HasNp(hoveredElement))
                   => sel = SelNpOpen \o Hovered.np \o SelAttrClose
            /\ ContainsStr(sel, SelNthOpen) <=> IsUnmarked(hoveredElement)

\* an element with a data-testid and a data-np but no id has been described
\* by its data-testid
C2_Witness ==
    /\ hoveredElement # NoElement
    /\ ~HasId(hoveredElement) /\ HasTestId(hoveredElement) /\ HasNp(hoveredElement)
    /\ elementInfo.uniqueSelector =
           <<"[","d","a","t","a","-","t","e","s","t","i","d","=","\"","t","\"","]">>

\* C3: for every element below the body without id, data-testid and data-np,
\* the elements the generated selector matches include the element.
C3_PathSelectorSound ==
    (hoveredElement # NoElement /\ IsUnmarked(hoveredElement))
        => hoveredElement \in querySelectorAll(elementInfo.uniqueSelector)

\* a class name or an ancestor's id is a CSS identifier as it stands
IsIdentifier(name) ==
    /\ Len(name) > 0
    /\ name[1] \in NameStartChars
    /\ \A i \in DOMAIN name : name[i] \in NameChars

RECURSIVE PlainNamesUpTo(_)
PlainNamesUpTo(e) ==
    \/ e = Body
    \/ /\ \A i \in DOMAIN Node(e).classList : IsIdentifier(Node(e).classList[i])
       /\ Node(e).id # <<>> => IsIdentifier(Node(e).id)
       /\ PlainNamesUpTo(parentElement(e))

\* the selector does match the element when every class name and id on the
\* way up needs no escaping (the reading of selectors above is not what
\* makes C3 fail)
PathSelectorSoundForIdentifiers ==
    (hoveredElement # NoElement /\ IsUnmarked(hoveredElement) /\ PlainNamesUpTo(hoveredElement))
        => hoveredElement \in querySelectorAll(elementInfo.uniqueSelector)

\* both the element and its parent are unmarked and carry classes
IsNestedPair(e) ==
    /\ e \in Elements
    /\ parentElement(e) # Body
    /\ IsUnmarked(e) /\ Len(Node(e).classList) > 0
    /\ IsUnmarked(parentElement(e)) /\ Len(Node(parentElement(e)).classList) > 0

\* seg is one segment for e: the tag first, ':nth-child(i)' with e's position
\* last, no combinator inside
IsOneSegmentFor(seg, e) ==
    /\ HasPrefixAt(seg, 1, ToLowerCase(Node(e).tagName) \o SelDot)
    /\ EndsWith(seg, SelNthOpen \o NumToStr(siblingIndex(e) + 1) \o SelNthClose)
    /\ ~ContainsStr(seg, SelChild)

\* C4: for nested elements with classes and no id, data-testid or data-np, at
\* most 10 levels below the body, the child's selector is the parent's
\* selector, ' > ', and exactly one further segment tag.classes:nth-child(i).
C4_ChildExtendsParent ==
    (IsNestedPair(hoveredElement) /\ Depth(hoveredElement) <= MaxPathLength) =>
        LET sel == elementInfo.uniqueSelector
            parentSel == generateUniqueSelector(parentElement(hoveredElement))
            n == Len(parentSel)
        IN  /\ Len(sel) > n + Len(SelChild)
            /\ SubSeq(sel, 1, n) = parentSel
            /\ SubSeq(sel, n + 1, n + Len(SelChild)) = SelChild
            /\ IsOneSegmentFor(SubSeq(sel, n + Len(SelChild) + 1, Len(sel)), hoveredElement)

\* the innermost element of a chain 10 levels deep has been described
C4_Witness ==
    /\ IsNestedPair(hoveredElement)
    /\ Depth(hoveredElement) = MaxPathLength
    /\ elementInfo.uniqueSelector = generateUniqueSelector(hoveredElement)

-----------------------------------------------------------------------------
(* Properties of the annotation store and the dashboard *)

Statuses == Range(STATUS_OPTIONS)
Keys == Range(ObjKeys(annotations))
AnnotationFields ==
    {"id", "selector", "elementInfo", "comment", "aiPrompt", "timestamp", "status"}

\* every key other than id holds the same record in both mappings
SameExcept(before, after, id) ==
    \A k \in AllIds \ {id} : ObjGet(after, k) = ObjGet(before, k)

\* C5: after a save, the mapping at the annotation's id holds a record equal
\* to the saved one in every field, a record made by the dialog has status
\* 'pending', and every entry under another id is as it was.
C5_SaveRoundTrip ==
    [][ lastCall'.op = "save" =>
            LET saved == lastCall'.annotation
                read == ObjGet(annotations', saved.id)
            IN  /\ ObjHas(annotations', saved.id)
                /\ DOMAIN read = AnnotationFields
                /\ \A f \in AnnotationFields : read[f] = saved[f]
                /\ read.status = "pending"
                /\ SameExcept(annotations, annotations', saved.id) ]_vars

\* a second annotation has been saved beside one whose status was changed
C5_Witness ==
    /\ lastCall.op = "save"
    /\ Len(annotations) = 2
    /\ ObjGet(annotations, lastCall.annotation.id) = lastCall.annotation
    /\ \E k \in Keys : ObjGet(annotations, k).status = "resolved"

\* C6: for every mapping and every id, present or absent, deleting twice
\* leaves what deleting once leaves, the result has no entry for the id, and
\* every other entry is unchanged.
C6_DeleteIdempotent ==
    \A id \in AllIds :
        LET once == deleteAnnotation(annotations, id)
            twice == deleteAnnotation(once, id)
        IN  /\ twice = once
            /\ ~ObjHas(once, id)
            /\ SameExcept(annotations, once, id)
            /\ lastCall.op = "delete" => ~ObjHas(annotations, lastCall.id)

\* an entry has been deleted from a mapping that keeps another entry
C6_Witness ==
    /\ lastCall.op = "delete"
    /\ ~ObjHas(annotations, lastCall.id)
    /\ Len(annotations) = 1

\* C7: for an id in the mapping, updateStatus(id, s) gives a mapping where
\* that record has status s and its other fields unchanged, and where every
\* other record and the ids are unchanged.
C7_UpdateStatusFrame ==
    /\ \A id \in Keys, s \in Statuses :
        LET next == updateStatus(annotations, id, s)
            old == ObjGet(annotations, id)
            new == ObjGet(next, id)
        IN  /\ ObjKeys(next) = ObjKeys(annotations)
            /\ SameExcept(annotations, next, id)
            /\ new.status = s
            /\ DOMAIN new = DOMAIN old
            /\ \A f \in DOMAIN old \ {"status"} : new[f] = old[f]
    /\ lastCall.op = "updateStatus" =>
        /\ ObjGet(annotations, lastCall.id).status = lastCall.status
        /\ DOMAIN ObjGet(annotations, lastCall.id) = AnnotationFields

\* the record saved with the comment 'button should be disabled' on
\* #submit-btn has been set to resolved, beside another entry
C7_Witness ==
    /\ lastCall.op = "updateStatus"
    /\ lastCall.status = "resolved"
    /\ Len(annotations) = 2
    /\ ObjGet(annotations, lastCall.id).status = "resolved"
    /\ ObjGet(annotations, lastCall.id).comment = "button should be disabled"
    /\ ObjGet(annotations, lastCall.id).selector = "#submit-btn"

\* C8: updateStatus(id, s) for an id that is not in the mapping hands the
\* store the mapping as it was: the same keys and records, and no record
\* holding only a status.
C8_UpdateAbsentIsNoOp ==
    [][ (lastCall'.op = "updateStatus" /\ ~ObjHas(annotations, lastCall'.id))
            => annotations' = annotations ]_vars

\* the list displayed for filter f
ListFor(f) == annotationListFor(annotations, f)

RECURSIVE SumLen(_)
SumLen(fs) ==
    IF fs = {} THEN 0
    ELSE LET f == CHOOSE x \in fs : TRUE IN Len(ListFor(f)) + SumLen(fs \ {f})

\* C9: with a filter f other than 'all' every displayed entry has status f,
\* and the four status lists together hold exactly the entries of the 'all'
\* list, each entry in exactly one of them.
C9_FilterPartition ==
    /\ filter # "all" => \A i \in DOMAIN annotationList : annotationList[i].status = filter
    /\ \A f \in Statuses : \A i \in DOMAIN ListFor(f) : ListFor(f)[i].status = f
    /\ UNION {Range(ListFor(f)) : f \in Statuses} = Range(ListFor("all"))
    /\ \A f, g \in Statuses : f # g => Range(ListFor(f)) \cap Range(ListFor(g)) = {}
    /\ SumLen(Statuses) = Len(ListFor("all"))
    /\ Len(ListFor("all")) = Len(annotations)

\* the resolved filter shows one of two entries
C9_Witness ==
    /\ filter = "resolved"
    /\ Len(annotations) = 2
    /\ Len(annotationList) = 1
    /\ Len(ListFor("pending")) = 1

\* what an export of list in the format gives
Serialized(list, format, date) ==
    IF format = "json" THEN exportAsJson(list) ELSE exportAsMarkdown(list, date)

\* the dates that follow '- **Created:** ' in a markdown document, in order
RECURSIVE CreatedFrom(_, _)
CreatedFrom(content, i) ==
    IF i > Len(content) THEN <<>>
    ELSE IF content[i - 1] = Text("- **Created:** ")
         THEN <<content[i].localeString>> \o CreatedFrom(content, i + 1)
         ELSE CreatedFrom(content, i + 1)

\* the creation times in an export, in the order of the document
ExportedTimestamps(content, format) ==
    IF format = "json" THEN [i \in DOMAIN content |-> content[i].timestamp]
    ELSE CreatedFrom(content, 2)

IsDescending(ts) == \A i, j \in DOMAIN ts : i < j => ts[i] >= ts[j]

\* C10 as claimed: the export holds exactly the entries displayed for the
\* selected filter, and the number reported is the length of that list.
C10_ExportIsDisplayedList ==
    lastCall.op = "export" =>
        /\ lastCall.clipboard = Serialized(annotationList, lastCall.format, now)
        /\ lastCall.exported = Len(annotationList)

\* C10, amended: the export holds every entry of the mapping, that is the
\* list displayed for 'all', whatever filter is selected, in descending
\* timestamp order, and the number reported is the number of entries.
C10_ExportIsWholeList ==
    lastCall.op = "export" =>
        /\ lastCall.clipboard = Serialized(ListFor("all"), lastCall.format, now)
        /\ Len(ExportedTimestamps(lastCall.clipboard, lastCall.format)) = Len(annotations)
        /\ IsDescending(ExportedTimestamps(lastCall.clipboard, lastCall.format))
        /\ lastCall.exported = Len(annotations)

\* an export ran while the resolved filter showed one of two entries, and
\* reported two
C10_Witness ==
    /\ lastCall.op = "export"
    /\ filter = "resolved"
    /\ Len(annotationListFor(annotations, "resolved")) = 1
    /\ Len(annotations) = 2
    /\ lastCall.exported = 2

-----------------------------------------------------------------------------
(* Properties of the markdown builder, under SpecExport *)

EmptyMarkdown == <<Text("# Debug Annotations\n\nNo annotations found.")>>

IsSeparator(piece) == piece \in {Text("---\n\n"), Text("_\n\n---\n\n")}

\* C11: exportAsMarkdown of an empty list is exactly the text
\* '# Debug Annotations\n\nNo annotations found.', with no export date, total
\* or separator; for a non-empty list the result is never that text and opens
\* with the title, the export date and the total.
C11_MarkdownEmptyLiteral ==
    lastCall.op = "exportAsMarkdown" =>
        LET result == lastCall.result
        IN  IF Len(lastCall.list) = 0
            THEN /\ result = EmptyMarkdown
                 /\ \A i \in DOMAIN result :
                        /\ DOMAIN result[i] = {"text"}
                        /\ ~IsSeparator(result[i])
            ELSE /\ result # EmptyMarkdown
                 /\ result[1] = Text("# Debug Annotations\n\n_Exported: ")
                 /\ result[2] = DateText(now)
                 /\ result[4] = NumText(Len(lastCall.list))
                 /\ IsSeparator(result[5])

\* the builder ran on the empty list of a filter while the mapping had entries
C11_Witness ==
    /\ lastCall.op = "exportAsMarkdown"
    /\ Len(lastCall.list) = 0
    /\ Len(annotations) = 2
    /\ lastCall.result = EmptyMarkdown

-----------------------------------------------------------------------------
(* Properties of the overlay and its inspector, under SpecOverlay *)

\* C12: a press of Ctrl+Shift+D toggles the overlay: it hides a shown overlay
\* and shows a hidden one, one closed with the close button included.
C12_ShortcutToggles ==
    [][(lastCall'.op = "keydown" /\ lastCall'.key = KeyCtrlShiftD)
            => state'.enabled = ~state.enabled]_vars

\* the element is part of the tool: below the overlay's root, the inspector's
\* root or an annotation dialog or badge
InToolSubtree(el) ==
    \/ closest(el, DataOverlay)
    \/ closest(el, DataInspector)
    \/ closest(el, DataAnnotation)

\* C14: every click while the inspector is armed is prevented and stopped and
\* passes the tracked element and its descriptor to onElementSelect, a click
\* before any pointer move or after Escape included.
C14_EveryArmedClickSelects ==
    (lastCall.op = "click" /\ lastCall.armed) =>
        /\ lastCall.defaultPrevented
        /\ lastCall.propagationStopped
        /\ lastCall.onElementSelect = <<[element |-> hoveredElement, info |-> elementInfo]>>

\* C14, amended: a click while the inspector is armed and tracks an element
\* is prevented and stopped and passes the tracked element and its
\* descriptor to onElementSelect once; a click while it is armed and tracks
\* nothing is neither prevented nor stopped and passes nothing.
C14_TrackedClickSelects ==
    (lastCall.op = "click" /\ lastCall.armed) =>
        IF hoveredElement # NoElement /\ elementInfo # NoInfo
        THEN /\ lastCall.defaultPrevented
             /\ lastCall.propagationStopped
             /\ lastCall.onElementSelect =
                    <<[element |-> hoveredElement, info |-> elementInfo]>>
        ELSE /\ ~lastCall.defaultPrevented
             /\ ~lastCall.propagationStopped
             /\ lastCall.onElementSelect = <<>>

\* a click selected the span the pointer had been moved over
C14_Witness ==
    /\ lastCall.op = "click"
    /\ lastCall.armed
    /\ hoveredElement = PageSpan
    /\ Len(lastCall.onElementSelect) = 1
    /\ lastCall.onElementSelect[1].info = getElementInfo(PageSpan)

\* C15: while the inspector is armed the tracked element is never the root
\* element, never the body and never an element of the tool's own subtree.
C15_TargetOutsideTool ==
    (Armed /\ hoveredElement # NoElement) =>
        /\ hoveredElement # Html
        /\ hoveredElement # Body
        /\ ~InToolSubtree(hoveredElement)

\* C16: Escape while the inspector is armed clears the tracked element and
\* its descriptor and calls onDisable once; Escape while it is disabled, and
\* any other key, change nothing and call nothing.
C16_EscapeDisables ==
    [][lastCall'.op = "keydown" =>
          IF lastCall'.key = KeyEscape /\ Armed
          THEN /\ hoveredElement' = NoElement
               /\ elementInfo' = NoInfo
               /\ lastCall'.onDisable = 1
          ELSE /\ UNCHANGED <<hoveredElement, elementInfo, state, listeners>>
               /\ lastCall'.onDisable = 0]_vars

\* Escape was pressed while the inspector was armed, and disabled it
C16_Witness ==
    /\ lastCall.op = "keydown"
    /\ lastCall.key = KeyEscape
    /\ lastCall.armed
    /\ lastCall.onDisable = 1
    /\ ~state.showInspector

\* each listener is registered once while the inspector is armed and not at
\* all otherwise, and a disabled inspector tracks nothing
ListenersPaired ==
    /\ \A type \in DOMAIN listeners : listeners[type] = IF Armed THEN 1 ELSE 0
    /\ ~Armed => (hoveredElement = NoElement /\ elementInfo = NoInfo)

\* a pointer move or a click while the inspector is disabled changes nothing
\* and selects nothing
DisabledIgnoresPointer ==
    (~Armed /\ lastCall'.op \in {"mousemove", "click"}) =>
        /\ UNCHANGED <<hoveredElement, elementInfo, state, listeners>>
        /\ lastCall'.op = "click" => lastCall'.onElementSelect = <<>>

\* C17: the inspector's document listeners are attached exactly while it is
\* armed, each at most once, none after it is disabled or unmounted; once
\* disabled it tracks nothing, and no pointer move or click changes that or
\* selects anything.
C17_ListenersWhileArmed ==
    []ListenersPaired /\ [][DisabledIgnoresPointer]_vars

\* the overlay was closed while the inspector was armed, and no listener is left
C17_Witness ==
    /\ lastCall.op = "close"
    /\ lastCall.armed
    /\ ~state.enabled
    /\ listeners = NoListeners

-----------------------------------------------------------------------------
(* Properties of the count callback, under Spec *)

\* C13: onAnnotationCountChange is called whenever the number of annotations
\* changes, after a save that adds one, a delete and a clear, with the new
\* number, so that the value it delivered last is the size of the mapping.
C13_CountFollowsMapping ==
    annotationCount = Len(ObjKeys(annotations))

-----------------------------------------------------------------------------
(* Properties of the cold reload button, under SpecReload *)

\* C18: after a release of the cold reload button before its progress
\* reached 100, two presses without a release between them included, no
\* interval is running, coldReloadActive is false, the progress is 0 and
\* stays 0 until the next press, and the page is not reloaded.
C18_ReleaseCancels ==
    ~coldReloadActive =>
        /\ DOMAIN intervals = {}
        /\ coldReloadProgress = 0
        /\ ~reloaded

-----------------------------------------------------------------------------
(* Properties of the process info polling, under SpecProcess *)

\* C19: a failed call of getProcessInfo is caught: the process info shown
\* keeps its value, the polling interval keeps running, and the callback is
\* called again at the interval's next tick and not before.
C19_FailureKeepsLastValue ==
    [][lastCall'.op = "console.warn" =>
          /\ processInfo' = processInfo
          /\ pollInterval' = pollInterval
          /\ inFlight' = inFlight - 1
          /\ pollInterval => (ENABLED PollTick)']_vars

\* a call failed after another had delivered process info, which is still
\* shown, and the interval is running
C19_Witness ==
    /\ lastCall.op = "console.warn"
    /\ processInfo \in ProcessInfos
    /\ pollInterval

-----------------------------------------------------------------------------
(* Properties of the stored item, under Spec *)

\* the properties of a record that are not undefined
DefinedFields(record) == {f \in DOMAIN record : record[f] # UndefinedString}

\* two annotations with the same defined properties, those of elementInfo
\* included
SameAnnotation(a, b) ==
    /\ DOMAIN a = DOMAIN b
    /\ \A f \in DOMAIN a \ {"elementInfo"} : a[f] = b[f]
    /\ "elementInfo" \in DOMAIN a =>
          /\ DefinedFields(a.elementInfo) = DefinedFields(b.elementInfo)
          /\ \A f \in DefinedFields(a.elementInfo) : a.elementInfo[f] = b.elementInfo[f]

\* two mappings with the same ids in the same order and the same annotations
SameMapping(a, b) ==
    /\ ObjKeys(a) = ObjKeys(b)
    /\ \A i \in DOMAIN a : SameAnnotation(a[i].value, b[i].value)

\* C20: after every save, status update, delete and clear the item stored
\* under the store's key is the serialization of the mapping in memory, and
\* a store created with that key starts from that mapping.
C20_StorageMirrorsMapping ==
    /\ lastCall.op \in {"save", "updateStatus", "delete"}
          => localStorage = JsonStringify(annotations)
    /\ (lastCall.op = "clearAll" /\ lastCall.confirmed)
          => localStorage = JsonStringify(annotations)
    /\ localStorage # NoItem => SameMapping(JsonParse(localStorage), annotations)
    /\ lastCall.op = "createAnnotationsAtom" => SameMapping(lastCall.value, annotations)

\* a store was created after the mapping, which had held two annotations,
\* was cleared, and it starts empty
C20_Witness ==
    /\ lastCall.op = "createAnnotationsAtom"
    /\ localStorage = JsonStringify(<<>>)
    /\ annotations = <<>>
    /\ annotationCount = 2

-----------------------------------------------------------------------------
(* Properties of the two ancestor walks, under SpecSelector *)

\* the segments of a selector, split at the child combinator
Segments(selector) == SplitChild(selector)

\* C21: the ancestor walk stops at the body or after 10 levels: the selector
\* of an element of any depth has at most 10 segments joined by ' > '.
C21_AtMostTenSegments ==
    hoveredElement # NoElement =>
        Len(Segments(elementInfo.uniqueSelector)) <= MaxPathLength

\* the ancestor of e that is d levels above it (e itself for d = 0)
RECURSIVE AncestorAt(_, _)
AncestorAt(e, d) == IF d = 0 \/ e = Body THEN e ELSE AncestorAt(parentElement(e), d - 1)

\* how many levels above e the nearest ancestor with an id is; 0 when there
\* is none below the body
IdDistance(e) ==
    LET withId == {d \in 1..Count : AncestorAt(e, d) # Body /\ HasId(AncestorAt(e, d))}
    IN  IF withId = {} THEN 0
        ELSE CHOOSE d \in withId : \A other \in withId : d <= other

\* the 1-based position of e among the children of its parent
PositionOf(e) ==
    Cardinality({c \in Elements : nodes[c].parent = nodes[e].parent /\ c <= e})

\* tag, '.' and at most the first two class names, ':nth-child(i)'
TagClassNth(e) ==
    LET classes == Node(e).classList
        dotted == IF Len(classes) = 0 THEN <<>>
                  ELSE IF Len(classes) = 1 THEN SelDot \o classes[1]
                  ELSE SelDot \o classes[1] \o SelDot \o classes[2]
    IN  ToLowerCase(Node(e).tagName) \o dotted
            \o SelNthOpen \o NumToStr(PositionOf(e)) \o SelNthClose

\* the walk from the tracked element reaches an ancestor with an id
WalkReachesId ==
    /\ hoveredElement # NoElement
    /\ IsUnmarked(hoveredElement)
    /\ IdDistance(hoveredElement) \in 1..MaxPathLength

\* C22: when the walk reaches an ancestor with an id, that level's segment is
\* exactly '#id', it is the first segment and nothing above it contributes;
\* every segment after it is tag, '.' and at most the first two classes, and
\* ':nth-child(i)' with i the position among the parent's children.
C22_IdAncestorEndsWalk ==
    WalkReachesId =>
        LET d == IdDistance(hoveredElement)
            segments == Segments(elementInfo.uniqueSelector)
        IN  /\ Len(segments) = d + 1
            /\ segments[1] = SelHash \o Node(AncestorAt(hoveredElement, d)).id
            /\ \A j \in 2..(d + 1) :
                   segments[j] = TagClassNth(AncestorAt(hoveredElement, d + 1 - j))

\* an element ten levels below an ancestor with an id has been described
C22_Witness ==
    /\ WalkReachesId
    /\ IdDistance(hoveredElement) = MaxPathLength
    /\ Len(Segments(elementInfo.uniqueSelector)) = MaxPathLength + 1

\* C23: the path of getDomPath has at most 8 entries for an element of any
\* depth, each the lower-case tag with '#id' when the element has an id, from
\* the outermost included ancestor to the element itself, the body never
\* included.
C23_DomPathAtMostEight ==
    hoveredElement # NoElement =>
        LET path == elementInfo.domPath
            n == Len(path)
        IN  /\ n <= MaxDomPath
            /\ n >= 1
            /\ \A j \in 1..n :
                   LET e == AncestorAt(hoveredElement, n - j)
                   IN  /\ e # Body
                       /\ path[j] = ToLowerCase(Node(e).tagName)
                                      \o (IF HasId(e) THEN SelHash \o Node(e).id ELSE <<>>)

-----------------------------------------------------------------------------
(* Properties of the displayed list and of Clear All, under Spec *)

\* C24: for every mapping and filter the displayed list is in non-increasing
\* order of timestamp and holds no entry twice, and with filter 'all' it
\* holds every entry of the mapping exactly once.
C24_ListSortedAndComplete ==
    \A f \in Range(FILTER_OPTIONS) :
        LET list == ListFor(f)
        IN  /\ IsDescending([i \in DOMAIN list |-> list[i].timestamp])
            /\ \A i, j \in DOMAIN list : i # j => list[i].id # list[j].id
            /\ f = "all" =>
                  /\ Len(list) = Len(annotations)
                  /\ {list[i] : i \in DOMAIN list} = Range(ObjValues(annotations))

\* two annotations saved one after the other are displayed newest first
C24_Witness ==
    /\ Len(annotations) = 2
    /\ annotations[1].value.timestamp < annotations[2].value.timestamp
    /\ ListFor("all") = <<annotations[2].value, annotations[1].value>>

\* C25: Clear All with the confirmation accepted passes the empty mapping to
\* the store and sends 'All annotations cleared'; with the confirmation
\* declined it writes nothing, leaves the mapping as it was and sends nothing.
C25_ClearAllConfirmed ==
    [][lastCall'.op = "clearAll" =>
          IF lastCall'.confirmed
          THEN /\ annotations' = <<>>
               /\ localStorage' = JsonStringify(<<>>)
               /\ "toast" \in DOMAIN lastCall'
               /\ lastCall'.toast = "All annotations cleared"
          ELSE /\ UNCHANGED <<annotations, localStorage>>
               /\ "toast" \notin DOMAIN lastCall']_vars

\* the confirmation was declined while the mapping held two annotations,
\* which are still there
C25_Witness ==
    /\ lastCall.op = "clearAll"
    /\ ~lastCall.confirmed
    /\ Len(annotations) = 2
    /\ localStorage = JsonStringify(annotations)

-----------------------------------------------------------------------------
(* Properties of the cold reload, under SpecReload *)

\* C26: the page is reloaded only by the interval of the most recent press
\* after its 10 ticks with no release between, never after a release and
\* never after the overlay was closed during the hold; the progress is one of
\* 0, 10, ..., 100.
C26_ReloadOnlyAfterHold ==
    /\ coldReloadProgress \in {ColdReloadStep * k : k \in 0..(ColdReloadDone \div ColdReloadStep)}
    /\ reloaded =>
          /\ state.enabled
          /\ coldReloadActive
          /\ coldReloadTimeoutRef # NoTimer
          /\ coldReloadTimeoutRef \notin DOMAIN intervals
          /\ coldReloadProgress = ColdReloadDone


-----------------------------------------------------------------------------
(* Properties of the inspector's hover state, under SpecOverlay, where the
   page does not change while the inspector tracks an element *)

\* what onElementSelect was passed by the last click, if anything
Selected ==
    IF lastCall # NoCall /\ lastCall.op = "click" THEN lastCall.onElementSelect ELSE <<>>

HoverPaired ==
    /\ hoveredElement = NoElement <=> elementInfo = NoInfo
    /\ hoveredElement # NoElement => elementInfo = getElementInfo(hoveredElement)
    /\ \A i \in DOMAIN Selected :
          /\ Selected[i].element # NoElement
          /\ Selected[i].info = getElementInfo(Selected[i].element)

\* a pointer move whose stack holds no eligible element or whose first
\* eligible element is the tracked one
MoveToSameOrNone ==
    \E over \in PointerPositions, belowHighlight \in BOOLEAN :
        /\ MouseMove(over, belowHighlight)
        /\ FindTarget(elementsFromPoint(over, belowHighlight), 1)
              \in {NoElement, hoveredElement}

\* C27: the tracked element and its descriptor are null together; a non-null
\* descriptor is getElementInfo of the tracked element; a pointer move that
\* resolves to the tracked element or to no eligible element changes neither;
\* a selection passes an element together with its own descriptor
C27_HoverPaired ==
    /\ []HoverPaired
    /\ [][MoveToSameOrNone => UNCHANGED <<hoveredElement, elementInfo>>]_vars

C27_Witness ==
    /\ hoveredElement = PageSpan
    /\ elementInfo = getElementInfo(PageSpan)
    /\ Selected = <<[element |-> PageSpan, info |-> getElementInfo(PageSpan)]>>


-----------------------------------------------------------------------------
(* Properties of the process info display, under SpecProcess *)

\* process info is displayed: the button is on and the caller gave a callback
ProcessInfoOn == showProcessInfo /\ getProcessInfo

\* C28: while the process info display is off the stored process info is
\* null and stays null: a call of getProcessInfo still in flight when the
\* display went off does not write its result, and no interval is left to
\* call the callback again
C28_OffMeansNull ==
    ~ProcessInfoOn => processInfo = NoProcessInfo /\ ~pollInterval


-----------------------------------------------------------------------------
(* Properties of the store shared by the annotation system and the
   dashboard, under Spec, where saves interleave with the dashboard's status
   updates, deletes and clears *)

\* the step removes the entry under k: a delete of k or an accepted Clear All
RemovedBy(call, k) ==
    \/ call.op = "delete" /\ call.id = k
    \/ call.op = "clearAll" /\ call.confirmed

\* the entry the step may leave under k, where entry was before
KeptAs(call, k, entry) ==
    IF call.op = "updateStatus" /\ call.id = k
    THEN [entry EXCEPT !.status = call.status]
    ELSE IF call.op = "save" /\ call.annotation.id = k
    THEN call.annotation
    ELSE entry

-----------------------------------------------------------------------------
(* Properties of the annotation dialog, under Spec *)

\* an entry as the dialog makes it, stored under its own id
FromDialog(entry) ==
    /\ entry.key = entry.value.id
    /\ Trim(entry.value.comment) # ""
    /\ entry.value.selector = entry.value.elementInfo.uniqueSelector

\* Save pressed on a comment that is blank after trimming
BlankSave ==
    \E comment \in Comments, suffix \in RandomSuffixes :
        Trim(comment) = "" /\ HandleSave(comment, suffix)

\* C30: every entry of the mapping has a comment that is not blank after
\* trimming, a selector equal to its elementInfo.uniqueSelector and a key
\* equal to its id, and enters with status 'pending'; a Save on a blank
\* comment and a close of the dialog (Escape, Cancel, the backdrop) leave the
\* mapping as it was; a successful save closes the dialog
C30_DialogEntries ==
    /\ [](\A i \in DOMAIN annotations : FromDialog(annotations[i]))
    /\ [][ /\ lastCall'.op = "save"
              => /\ dialogElementInfo' = NoDialog
                 /\ lastCall'.annotation.status = "pending"
                 /\ ObjGet(annotations', lastCall'.annotation.id) = lastCall'.annotation
           /\ (BlankSave \/ HandleCloseDialog)
              => /\ annotations' = annotations
                 /\ localStorage' = localStorage ]_vars

C30_Witness ==
    /\ lastCall.op = "save"
    /\ dialogElementInfo = NoDialog
    /\ Len(annotations) = 1
    /\ annotations[1].value.status = "pending"
    /\ annotations[1].value.selector = "#submit-btn"

=============================================================================
